---- MODULE Spec2Model ----
(***************************************************************************)
(* Model of the IBC 02-client exported types (Height, ClientType, the      *)
(* ClientState contract) and of the 'consensus-state' query command.       *)
(*                                                                         *)
(* Unsigned 64-bit integers are modelled at a scaled width of Bits bits:   *)
(* every conversion and subtraction wraps modulo 2^Bits exactly as the Go  *)
(* operations wrap modulo 2^64.                                            *)
(***************************************************************************)
EXTENDS Integers, Sequences, FiniteSets, TLC

VARIABLES
    a, b, c,            \* Height operands
    heightOut,          \* result of the last Height operation
    ct,                 \* ClientType value being encoded
    wire,               \* encoded representation (plain string or JSON document)
    encodedFrom,        \* the ClientType whose encoding is on the wire, -1 if external
    target,             \* the ClientType variable UnmarshalJSON writes through
    typeOut,            \* result of the last ClientType operation
    clientState,        \* the stored ClientState of one client
    consensusStates,    \* Height -> commitment root ("none" when absent)
    clientOut,          \* result of the last ClientState operation
    cmd,                \* command line of 'consensus-state'
    cmdOut              \* outcome of RunE

heightVars == <<a, b, c, heightOut>>
typeVars   == <<ct, wire, encodedFrom, target, typeOut>>
clientVars == <<clientState, consensusStates, clientOut>>
cmdVars    == <<cmd, cmdOut>>
vars == <<a, b, c, heightOut, ct, wire, encodedFrom, target, typeOut,
          clientState, consensusStates, clientOut, cmd, cmdOut>>

----------------------------------------------------------------------------
(* Integer widths *)

\* scaled width of uint64 / int64; at least 4, so that a decimal digit fits a word
Bits == 4

Modulus   == 2 ^ Bits
MaxUint64 == Modulus - 1
MinInt64  == -(2 ^ (Bits - 1))
MaxInt64  == (2 ^ (Bits - 1)) - 1

\* int64(x) for x a uint64: reinterpretation of the bit pattern
ToInt64(u) == IF u > MaxInt64 THEN u - Modulus ELSE u

\* the int64 value of a mathematical integer after two's complement wrap-around
WrapInt64(x) == ((x - MinInt64) % Modulus) + MinInt64

\* uint64(x) for x a signed integer
ToUint64(x) == x % Modulus

----------------------------------------------------------------------------
(* Height *)

NewHeight(epochNumber, epochHeight) ==
    [EpochNumber |-> epochNumber, EpochHeight |-> epochHeight]

ZeroHeight == NewHeight(0, 0)

\* a plausible slip: the difference is returned without reducing it to its sign
CompareUnnormalised(h, other) ==
    IF h.EpochNumber # other.EpochNumber
    THEN WrapInt64(ToInt64(h.EpochNumber) - ToInt64(other.EpochNumber))
    ELSE WrapInt64(ToInt64(h.EpochHeight) - ToInt64(other.EpochHeight))

\* a plausible slip: operands of the subtraction swapped
CompareSwapped(h, other) ==
    LET cmp == IF h.EpochNumber # other.EpochNumber
               THEN WrapInt64(ToInt64(other.EpochNumber) - ToInt64(h.EpochNumber))
               ELSE WrapInt64(ToInt64(other.EpochHeight) - ToInt64(h.EpochHeight))
    IN  IF cmp < 0 THEN -1 ELSE IF cmp > 0 THEN 1 ELSE 0

Compare(h, other) ==
    LET cmp == IF h.EpochNumber # other.EpochNumber
               THEN WrapInt64(ToInt64(h.EpochNumber) - ToInt64(other.EpochNumber))
               ELSE WrapInt64(ToInt64(h.EpochHeight) - ToInt64(other.EpochHeight))
    IN  IF cmp < 0 THEN -1 ELSE IF cmp > 0 THEN 1 ELSE 0

LT(h, other) == Compare(h, other) = -1

GT(h, other) == Compare(h, other) = 1

EQ(h, other) == Compare(h, other) = 0

\* a plausible slip: guard "< 1" instead of "<= 1"
DecrementOffByOne(h) ==
    IF h.EpochHeight < 1
    THEN [decremented |-> ZeroHeight, success |-> FALSE]
    ELSE [decremented |-> NewHeight(h.EpochNumber, (h.EpochHeight - 1) % Modulus),
          success |-> TRUE]

Decrement(h) ==
    IF h.EpochHeight <= 1
    THEN [decremented |-> ZeroHeight, success |-> FALSE]
    ELSE [decremented |-> NewHeight(h.EpochNumber, (h.EpochHeight - 1) % Modulus),
          success |-> TRUE]

\* a plausible slip: the wrong field is tested
ValidByEpochNumber(h) == h.EpochNumber # 0

Valid(h) == h.EpochHeight # 0

IsZero(h) == h.EpochNumber = 0 /\ h.EpochHeight = 0

\* boundary values of the uint64 domain: around 0, around 2^(Bits-1), around 2^Bits - 1
EpochSamples  == {0, 1, MaxInt64 + 1, MaxUint64}
HeightSamples == {0, 1, 2, MaxInt64, MaxInt64 + 1, MaxInt64 + 2, MaxUint64 - 1, MaxUint64}
Heights == {NewHeight(e, h) : e \in EpochSamples, h \in HeightSamples}

NoHeightOut == [op |-> "none", val |-> 0]

InitHeight ==
    /\ a \in Heights
    /\ b \in Heights
    /\ c \in Heights
    /\ heightOut = NoHeightOut

DoCompare ==
    /\ heightOut' = [op |-> "Compare",
                     val |-> [aa |-> Compare(a, a), ab |-> Compare(a, b),
                              ba |-> Compare(b, a), bc |-> Compare(b, c),
                              ac |-> Compare(a, c)]]
    /\ UNCHANGED <<a, b, c, typeVars, clientVars, cmdVars>>

DoLT ==
    /\ heightOut' = [op |-> "LT", val |-> [ab |-> LT(a, b), ba |-> LT(b, a)]]
    /\ UNCHANGED <<a, b, c, typeVars, clientVars, cmdVars>>

DoGT ==
    /\ heightOut' = [op |-> "GT", val |-> [ab |-> GT(a, b), ba |-> GT(b, a)]]
    /\ UNCHANGED <<a, b, c, typeVars, clientVars, cmdVars>>

DoEQ ==
    /\ heightOut' = [op |-> "EQ", val |-> [ab |-> EQ(a, b), ba |-> EQ(b, a)]]
    /\ UNCHANGED <<a, b, c, typeVars, clientVars, cmdVars>>

DoDecrement ==
    /\ heightOut' = [op |-> "Decrement", val |-> Decrement(a)]
    /\ UNCHANGED <<a, b, c, typeVars, clientVars, cmdVars>>

DoValid ==
    /\ heightOut' = [op |-> "Valid", val |-> Valid(a)]
    /\ UNCHANGED <<a, b, c, typeVars, clientVars, cmdVars>>

DoIsZero ==
    /\ heightOut' = [op |-> "IsZero", val |-> IsZero(a)]
    /\ UNCHANGED <<a, b, c, typeVars, clientVars, cmdVars>>

NextHeight ==
    \/ DoCompare
    \/ DoLT
    \/ DoGT
    \/ DoEQ
    \/ DoDecrement
    \/ DoValid
    \/ DoIsZero

----------------------------------------------------------------------------
(* ClientType *)

SoloMachine == 6
Tendermint  == 7
Localhost   == 9

ClientTypeSoloMachine == "solomachine"
ClientTypeTendermint  == "tendermint"
ClientTypeLocalHost   == "localhost"

\* the registered client types and their canonical names
RegisteredTypes == {SoloMachine, Tendermint, Localhost}
CanonicalNames  == {ClientTypeSoloMachine, ClientTypeTendermint, ClientTypeLocalHost}

\* largest ClientType byte value enumerated
MaxTypeByte == 10
TypeBytes == 0 .. MaxTypeByte

String(t) ==
    CASE t = Tendermint -> ClientTypeTendermint
      [] t = Localhost  -> ClientTypeLocalHost
      [] OTHER          -> ""

\* a plausible slip: unknown names default to a valid type
ClientTypeFromStringDefaulting(clientType) ==
    CASE clientType = ClientTypeTendermint -> Tendermint
      [] clientType = ClientTypeLocalHost  -> Localhost
      [] OTHER                             -> Tendermint

ClientTypeFromString(clientType) ==
    CASE clientType = ClientTypeTendermint -> Tendermint
      [] clientType = ClientTypeLocalHost  -> Localhost
      [] OTHER                             -> 0

\* A document on the wire: a plain string ("raw") or a JSON document whose
\* top-level value is a string, null, a number, or which is not JSON at all.
Raw(s) == [kind |-> "raw", str |-> s]

\* json.Marshal of a Go string
JsonMarshal(s) == [kind |-> "string", str |-> s]

\* json.Unmarshal into a Go string variable initialised to ""
JsonUnmarshal(data) ==
    CASE data.kind = "string" -> [err |-> FALSE, s |-> data.str]
      [] data.kind = "null"   -> [err |-> FALSE, s |-> ""]
      [] OTHER                -> [err |-> TRUE, s |-> ""]

MarshalJSON(t) == JsonMarshal(String(t))

\* the value of *ct after the call, and the error
UnmarshalJSON(t, data) ==
    LET r == JsonUnmarshal(data)
        clientType == ClientTypeFromString(r.s)
    IN  IF r.err THEN [ct |-> t, err |-> "json"]
        ELSE IF clientType = 0 THEN [ct |-> t, err |-> "ErrInvalidType"]
        ELSE [ct |-> clientType, err |-> "nil"]

Names == CanonicalNames \cup {"", "Tendermint", "ostracon"}
ExternalWire ==
    {Raw(s) : s \in Names} \cup {JsonMarshal(s) : s \in Names}
        \cup {[kind |-> "null", str |-> ""], [kind |-> "number", str |-> ""],
              [kind |-> "malformed", str |-> ""]}

NoTypeOut == [op |-> "none", ret |-> 0, err |-> "nil", before |-> 0]

InitType ==
    /\ ct \in TypeBytes
    /\ wire \in ExternalWire
    /\ encodedFrom = -1
    /\ target \in {0} \cup RegisteredTypes
    /\ typeOut = NoTypeOut

DoString ==
    /\ wire' = Raw(String(ct))
    /\ encodedFrom' = ct
    /\ typeOut' = [op |-> "String", ret |-> 0, err |-> "nil", before |-> target]
    /\ UNCHANGED <<ct, target, heightVars, clientVars, cmdVars>>

DoMarshalJSON ==
    /\ wire' = MarshalJSON(ct)
    /\ encodedFrom' = ct
    /\ typeOut' = [op |-> "MarshalJSON", ret |-> 0, err |-> "nil", before |-> target]
    /\ UNCHANGED <<ct, target, heightVars, clientVars, cmdVars>>

DoClientTypeFromString ==
    /\ wire.kind = "raw"
    /\ typeOut' = [op |-> "ClientTypeFromString", ret |-> ClientTypeFromString(wire.str),
                   err |-> "nil", before |-> target]
    /\ UNCHANGED <<ct, wire, encodedFrom, target, heightVars, clientVars, cmdVars>>

DoUnmarshalJSON ==
    /\ wire.kind # "raw"
    /\ LET r == UnmarshalJSON(target, wire)
       IN  /\ target' = r.ct
           /\ typeOut' = [op |-> "UnmarshalJSON", ret |-> r.ct, err |-> r.err,
                          before |-> target]
    /\ UNCHANGED <<ct, wire, encodedFrom, heightVars, clientVars, cmdVars>>

NextType ==
    \/ DoString
    \/ DoMarshalJSON
    \/ DoClientTypeFromString
    \/ DoUnmarshalJSON

----------------------------------------------------------------------------
(* ClientState: the light-client contract, one client.                     *)
(* The interface is declared in the source; the behaviour of its           *)
(* implementations is taken from the specification document (4.3, 7).      *)

ClientEpochs       == {0, 1}
ClientEpochHeights == {2, MaxUint64}
ClientHeights == {NewHeight(e, h) : e \in ClientEpochs, h \in ClientEpochHeights}
Roots == {"r1", "r2"}

VerifyOps == {"VerifyClientState", "VerifyClientConsensusState", "VerifyConnectionState",
              "VerifyChannelState", "VerifyPacketCommitment",
              "VerifyPacketAcknowledgement", "VerifyPacketAcknowledgementAbsence",
              "VerifyNextSequenceRecv"}

IsFrozen(cs) == cs.frozen_height # 0

\* Headers: claimed height, claimed commitment root, and whether the header is
\* well-formed and authenticates under the variant's trust rule.
Headers == [height : ClientHeights, root : Roots, authentic : BOOLEAN]

\* a plausible slip: the frozen check is forgotten
CheckHeaderIgnoringFrozen(cs, store, header) ==
    IF ~header.authentic
    THEN [clientState |-> cs, consensusStates |-> store, err |-> "InvalidHeader"]
    ELSE IF store[header.height] # "none"
    THEN [clientState |-> cs, consensusStates |-> store,
          err |-> IF store[header.height] = header.root THEN "nil" ELSE "InvalidHeader"]
    ELSE IF GT(header.height, cs.latest_height)
    THEN [clientState |-> [cs EXCEPT !.latest_height = header.height],
          consensusStates |-> [store EXCEPT ![header.height] = header.root],
          err |-> "nil"]
    ELSE [clientState |-> cs, consensusStates |-> store, err |-> "InvalidHeader"]

CheckHeaderAndUpdateState(cs, store, header) ==
    IF IsFrozen(cs)
    THEN [clientState |-> cs, consensusStates |-> store, err |-> "ClientFrozen"]
    ELSE IF ~header.authentic
    THEN [clientState |-> cs, consensusStates |-> store, err |-> "InvalidHeader"]
    ELSE IF store[header.height] # "none"
    THEN \* already trusted height: identical content is a no-op, divergent content is rejected
         [clientState |-> cs, consensusStates |-> store,
          err |-> IF store[header.height] = header.root THEN "nil" ELSE "InvalidHeader"]
    ELSE IF GT(header.height, cs.latest_height)
    THEN [clientState |-> [cs EXCEPT !.latest_height = header.height],
          consensusStates |-> [store EXCEPT ![header.height] = header.root],
          err |-> "nil"]
    ELSE \* stale height
         [clientState |-> cs, consensusStates |-> store, err |-> "InvalidHeader"]

\* Misbehaviour: its height, whether each half authenticates, whether they conflict.
Misbehaviours == [height : ClientHeights \cup {ZeroHeight}, first : BOOLEAN,
                  second : BOOLEAN, conflict : BOOLEAN]

CheckMisbehaviourAndUpdateState(cs, misbehaviour) ==
    IF IsFrozen(cs)
    THEN [clientState |-> cs, err |-> "ClientFrozen"]
    ELSE IF /\ Valid(misbehaviour.height)
            /\ misbehaviour.first
            /\ misbehaviour.second
            /\ misbehaviour.conflict
    THEN [clientState |-> [cs EXCEPT !.frozen_height = misbehaviour.height.EpochHeight],
          err |-> "nil"]
    ELSE [clientState |-> cs, err |-> "InvalidMisbehaviour"]

\* The generic verification primitive behind the eight Verify* operations.
Verify(cs, store, height, specsMatch, proofOk) ==
    IF IsFrozen(cs) THEN "ClientFrozen"
    ELSE IF ~specsMatch THEN "ProofSpecMismatch"
    ELSE IF store[height] = "none" THEN "ConsensusStateNotFound"
    ELSE IF ~proofOk THEN "ProofVerificationFailed"
    ELSE "nil"

NoClientOut == [op |-> "none", err |-> "nil", height |-> ZeroHeight]

\* client creation: Active, with the creator's height and consensus state
InitClient ==
    /\ \E h \in ClientHeights, r \in Roots :
         /\ clientState = [latest_height |-> h, frozen_height |-> 0]
         /\ consensusStates = [x \in ClientHeights |-> IF x = h THEN r ELSE "none"]
    /\ clientOut = NoClientOut

DoCheckHeaderAndUpdateState ==
    \E header \in Headers :
      LET r == CheckHeaderAndUpdateState(clientState, consensusStates, header)
      IN  /\ UNCHANGED <<heightVars, typeVars, cmdVars>>
          /\ clientState' = r.clientState
          /\ consensusStates' = r.consensusStates
          /\ clientOut' = [op |-> "CheckHeaderAndUpdateState", err |-> r.err,
                           height |-> header.height]

DoCheckMisbehaviourAndUpdateState ==
    \E misbehaviour \in Misbehaviours :
      LET r == CheckMisbehaviourAndUpdateState(clientState, misbehaviour)
      IN  /\ clientState' = r.clientState
          /\ clientOut' = [op |-> "CheckMisbehaviourAndUpdateState", err |-> r.err,
                           height |-> misbehaviour.height]
          /\ UNCHANGED <<consensusStates, heightVars, typeVars, cmdVars>>

DoVerify ==
    \E op \in VerifyOps, height \in ClientHeights, specsMatch \in BOOLEAN,
       proofOk \in BOOLEAN :
      /\ clientOut' = [op |-> op, height |-> height,
                       err |-> Verify(clientState, consensusStates, height,
                                      specsMatch, proofOk)]
      /\ UNCHANGED <<clientState, consensusStates, heightVars, typeVars, cmdVars>>

NextClient ==
    \/ DoCheckHeaderAndUpdateState
    \/ DoCheckMisbehaviourAndUpdateState
    \/ DoVerify

----------------------------------------------------------------------------
(* The 'consensus-state [client-id] [height]' query command *)

\* longest height argument enumerated, in characters
MaxArgLen == 2

Chars == {"0", "1", "5", "6", "7", "8", "a", "-"}
DigitValue == ("0" :> 0) @@ ("1" :> 1) @@ ("2" :> 2) @@ ("3" :> 3) @@ ("4" :> 4)
              @@ ("5" :> 5) @@ ("6" :> 6) @@ ("7" :> 7) @@ ("8" :> 8) @@ ("9" :> 9)

HeightArgs == UNION {[1 .. n -> Chars] : n \in 0 .. MaxArgLen}

\* strconv.ParseUint(s, 10, 64), from character i on with n accumulated
RECURSIVE ParseUintFrom(_, _, _)
ParseUintFrom(s, i, n) ==
    IF i > Len(s) THEN [n |-> n, err |-> "nil"]
    ELSE IF s[i] \notin DOMAIN DigitValue THEN [n |-> 0, err |-> "ErrSyntax"]
    ELSE IF n >= (MaxUint64 \div 10) + 1 THEN [n |-> MaxUint64, err |-> "ErrRange"]
    ELSE LET n10 == (n * 10) % Modulus
             n1  == (n10 + DigitValue[s[i]]) % Modulus
         IN  IF n1 < n10 \/ n1 > MaxUint64
             THEN [n |-> MaxUint64, err |-> "ErrRange"]
             ELSE ParseUintFrom(s, i + 1, n1)

ParseUint(s) ==
    IF Len(s) = 0 THEN [n |-> 0, err |-> "ErrSyntax"] ELSE ParseUintFrom(s, 1, 0)

NoQuery == [clientID |-> "", height |-> ZeroHeight, prove |-> FALSE, latest |-> FALSE]

\* a plausible slip: the height argument is parsed even under --latest-height
RunEParsingAlways(cl) ==
    IF cl.flagsErr
    THEN [err |-> "ReadQueryCommandFlags", queried |-> FALSE, query |-> NoQuery]
    ELSE LET queryLatestHeight == cl.latest
             parsed == IF Len(cl.args) = 2 THEN ParseUint(cl.args[2])
                       ELSE [n |-> 0, err |-> "nil"]
         IN  IF ~queryLatestHeight /\ Len(cl.args) # 2
             THEN [err |-> "must include a second 'height' argument",
                   queried |-> FALSE, query |-> NoQuery]
             ELSE IF parsed.err # "nil"
             THEN [err |-> "expected integer height", queried |-> FALSE,
                   query |-> NoQuery]
             ELSE [err |-> IF cl.queryErr THEN "QueryConsensusState" ELSE "nil",
                   queried |-> TRUE,
                   query |-> [clientID |-> cl.args[1],
                              height |-> NewHeight(ToUint64(cl.epoch), parsed.n),
                              prove |-> cl.prove,
                              latest |-> queryLatestHeight]]

\* RunE of the command: the error returned, whether QueryConsensusState was
\* called, and with which arguments.  GetInt(flagEpoch) cannot fail: the flag
\* is registered as an Int.
RunE(cl) ==
    IF cl.flagsErr
    THEN [err |-> "ReadQueryCommandFlags", queried |-> FALSE, query |-> NoQuery]
    ELSE LET queryLatestHeight == cl.latest
             parsed == IF queryLatestHeight \/ Len(cl.args) # 2
                       THEN [n |-> 0, err |-> "nil"]
                       ELSE ParseUint(cl.args[2])
         IN  IF ~queryLatestHeight /\ Len(cl.args) # 2
             THEN [err |-> "must include a second 'height' argument",
                   queried |-> FALSE, query |-> NoQuery]
             ELSE IF parsed.err # "nil"
             THEN [err |-> "expected integer height", queried |-> FALSE,
                   query |-> NoQuery]
             ELSE [err |-> IF cl.queryErr THEN "QueryConsensusState" ELSE "nil",
                   queried |-> TRUE,
                   query |-> [clientID |-> cl.args[1],
                              height |-> NewHeight(ToUint64(cl.epoch), parsed.n),
                              prove |-> cl.prove,
                              latest |-> queryLatestHeight]]

\* command lines accepted by cobra.RangeArgs(1, 2)
CommandLines ==
    {[args |-> as, latest |-> l, epoch |-> e, prove |-> p, flagsErr |-> fe,
      queryErr |-> qe] :
        as \in {<<"07-tendermint-0">>} \cup {<<"07-tendermint-0", h>> : h \in HeightArgs},
        l \in BOOLEAN, e \in {-1, 0, 1}, p \in BOOLEAN, fe \in BOOLEAN,
        qe \in BOOLEAN}

NoCmdOut == [done |-> FALSE, err |-> "nil", queried |-> FALSE, query |-> NoQuery]

InitCmd ==
    /\ cmd \in CommandLines
    /\ cmdOut = NoCmdOut

DoRunE ==
    /\ ~cmdOut.done
    /\ LET r == RunE(cmd)
       IN  cmdOut' = [done |-> TRUE, err |-> r.err, queried |-> r.queried,
                      query |-> r.query]
    /\ UNCHANGED <<cmd, heightVars, typeVars, clientVars>>

NextCmd == DoRunE

----------------------------------------------------------------------------
(* Specifications: one per component, the other components at rest *)

HeightAtRest ==
    /\ a = ZeroHeight /\ b = ZeroHeight /\ c = ZeroHeight
    /\ heightOut = NoHeightOut

TypeAtRest ==
    /\ ct = 0 /\ wire = Raw("") /\ encodedFrom = -1 /\ target = 0
    /\ typeOut = NoTypeOut

ClientAtRest ==
    /\ clientState = [latest_height |-> NewHeight(0, 1), frozen_height |-> 0]
    /\ consensusStates = [x \in ClientHeights |-> "none"]
    /\ clientOut = NoClientOut

CmdAtRest ==
    /\ cmd = [args |-> <<"07-tendermint-0">>, latest |-> TRUE, epoch |-> 0,
              prove |-> TRUE, flagsErr |-> FALSE, queryErr |-> FALSE]
    /\ cmdOut = NoCmdOut

HeightInit == InitHeight /\ TypeAtRest /\ ClientAtRest /\ CmdAtRest

TypeInit == InitType /\ HeightAtRest /\ ClientAtRest /\ CmdAtRest

ClientInit == InitClient /\ HeightAtRest /\ TypeAtRest /\ CmdAtRest

CmdInit == InitCmd /\ HeightAtRest /\ TypeAtRest /\ ClientAtRest

SpecHeight == HeightInit /\ [][NextHeight]_vars

SpecType == TypeInit /\ [][NextType]_vars

SpecClient == ClientInit /\ [][NextClient]_vars

SpecCmd == CmdInit /\ [][NextCmd]_vars

----------------------------------------------------------------------------
(* Reference notions used by the properties *)

\* field-by-field lexicographic order on the unsigned values
RefLess(h, other) ==
    \/ h.EpochNumber < other.EpochNumber
    \/ h.EpochNumber = other.EpochNumber /\ h.EpochHeight < other.EpochHeight

RefCompare(h, other) ==
    IF RefLess(h, other) THEN -1 ELSE IF RefLess(other, h) THEN 1 ELSE 0

\* the value of a string of decimal digits, as a mathematical integer
RECURSIVE DecimalValue(_)
DecimalValue(s) ==
    IF Len(s) = 0 THEN 0
    ELSE 10 * DecimalValue(SubSeq(s, 1, Len(s) - 1)) + DigitValue[s[Len(s)]]

\* s is the decimal notation of an unsigned 64-bit integer
IsDecimalUint64(s) ==
    /\ Len(s) > 0
    /\ \A i \in 1 .. Len(s) : s[i] \in DOMAIN DigitValue
    /\ DecimalValue(s) <= MaxUint64

----------------------------------------------------------------------------
(* Properties *)

\* C1: Height.Compare is reflexive (a.Compare(a) = 0), antisymmetric
\* (a.Compare(b) = -b.Compare(a)) and transitive (a <= b and b <= c imply
\* a <= c) for all heights over the full unsigned domain.
C1_CompareIsTotalOrder ==
    heightOut.op = "Compare" =>
        /\ heightOut.val.aa = 0
        /\ heightOut.val.ab = -heightOut.val.ba
        /\ (heightOut.val.ab <= 0 /\ heightOut.val.bc <= 0) => heightOut.val.ac <= 0

\* C2: a.Compare(b) equals the field-by-field lexicographic comparison of
\* (epoch_number, epoch_height) as unsigned values; wrap-around of a
\* subtraction never changes the result.
C2_CompareIsLexicographic ==
    heightOut.op = "Compare" =>
        /\ heightOut.val.ab = RefCompare(a, b)
        /\ heightOut.val.ba = RefCompare(b, a)

\* C3: for every registered ClientType T (SoloMachine, Tendermint, Localhost),
\* decoding the canonical string of T (ClientTypeFromString on String(T),
\* UnmarshalJSON on MarshalJSON(T)) returns T without error.
C3_RegisteredTypesRoundTrip ==
    /\ (typeOut.op = "ClientTypeFromString" /\ encodedFrom \in RegisteredTypes)
          => typeOut.ret = encodedFrom
    /\ (typeOut.op = "UnmarshalJSON" /\ encodedFrom \in RegisteredTypes)
          => (typeOut.err = "nil" /\ target = encodedFrom)

\* C4: decoding a string that is not the canonical name of a registered client
\* type never yields a valid type: ClientTypeFromString returns the sentinel 0,
\* which is no registered type, and UnmarshalJSON returns an error and leaves
\* the target ClientType unchanged.
C4_UnknownNameNeverDecodes ==
    /\ (typeOut.op = "ClientTypeFromString" /\ wire.str \notin CanonicalNames)
          => (typeOut.ret = 0 /\ typeOut.ret \notin RegisteredTypes)
    /\ (typeOut.op = "UnmarshalJSON"
          /\ ~(wire.kind = "string" /\ wire.str \in CanonicalNames))
          => (typeOut.err # "nil" /\ target = typeOut.before)

\* an unknown name arrives as a JSON string while the target holds a valid type
C4_Witness ==
    /\ typeOut.op = "UnmarshalJSON"
    /\ wire = JsonMarshal("ostracon")
    /\ typeOut.before \in RegisteredTypes
    /\ typeOut.err = "ErrInvalidType"

\* C5: Decrement succeeds exactly when epoch_height > 1; it then returns
\* Height{epoch_number, epoch_height - 1}; when epoch_height is 0 or 1 it
\* fails and never returns a wrapped epoch_height.
C5_DecrementContract ==
    heightOut.op = "Decrement" =>
        /\ heightOut.val.success <=> a.EpochHeight > 1
        /\ heightOut.val.success =>
              /\ heightOut.val.decremented.EpochNumber = a.EpochNumber
              /\ heightOut.val.decremented.EpochHeight = a.EpochHeight - 1
        /\ ~heightOut.val.success =>
              /\ a.EpochHeight \in {0, 1}
              /\ heightOut.val.decremented.EpochHeight <= a.EpochHeight

\* a height above 1 has been decremented
C5_Witness ==
    /\ heightOut.op = "Decrement"
    /\ a.EpochHeight = 2
    /\ heightOut.val.success
    /\ heightOut.val.decremented.EpochHeight = 1

\* C6: h.Valid() iff epoch_height # 0, whatever the epoch_number; h.IsZero()
\* iff both fields are 0; hence every zero height is invalid.
C6_ValidAndIsZero ==
    /\ heightOut.op = "Valid" => (heightOut.val <=> a.EpochHeight # 0)
    /\ heightOut.op = "IsZero" =>
          /\ heightOut.val <=> (a.EpochNumber = 0 /\ a.EpochHeight = 0)
          /\ heightOut.val => ~Valid(a)

\* a height of epoch 0 with a non-zero epoch_height has been found valid
C6_Witness ==
    /\ heightOut.op = "Valid"
    /\ a.EpochNumber = 0
    /\ a.EpochHeight = MaxUint64
    /\ heightOut.val

\* C10: whenever h.Decrement() succeeds with result d, d is Valid, d has the
\* epoch_number of h, and d.LT(h) and h.GT(d) hold according to Compare, also
\* when epoch_height is in the upper half of the unsigned domain.
C10_DecrementedIsValidAndBelow ==
    (heightOut.op = "Decrement" /\ heightOut.val.success) =>
        /\ Valid(heightOut.val.decremented)
        /\ heightOut.val.decremented.EpochNumber = a.EpochNumber
        /\ LT(heightOut.val.decremented, a)
        /\ GT(a, heightOut.val.decremented)

\* the smallest height of the upper half of the domain has been decremented
C10_Witness ==
    /\ heightOut.op = "Decrement"
    /\ heightOut.val.success
    /\ a.EpochHeight = MaxInt64 + 1
    /\ heightOut.val.decremented.EpochHeight = MaxInt64

HeaderAndVerifyOps == {"CheckHeaderAndUpdateState"} \cup VerifyOps

\* C7: Frozen is terminal: once a client is frozen, every later
\* CheckHeaderAndUpdateState and every one of the eight Verify* operations
\* fails with ClientFrozen, and no operation returns the client to Active or
\* clears (or changes) frozen_height.
C7_FrozenIsTerminal ==
    [][IsFrozen(clientState) =>
          /\ IsFrozen(clientState')
          /\ clientState'.frozen_height = clientState.frozen_height
          /\ clientOut'.op \in HeaderAndVerifyOps => clientOut'.err = "ClientFrozen"
      ]_vars

\* an authentic header was submitted to a frozen client and refused
C7_Witness ==
    /\ IsFrozen(clientState)
    /\ clientOut.op = "CheckHeaderAndUpdateState"
    /\ clientOut.err = "ClientFrozen"
    /\ consensusStates[clientOut.height] = "none"

OrderResults ==
    [lt |-> IF heightOut.op = "LT" THEN heightOut.val.ab ELSE LT(a, b),
     eq |-> IF heightOut.op = "EQ" THEN heightOut.val.ab ELSE EQ(a, b),
     gt |-> IF heightOut.op = "GT" THEN heightOut.val.ab ELSE GT(a, b)]

\* C11: for every pair of heights a, b exactly one of a.LT(b), a.EQ(b), a.GT(b)
\* holds, and a.EQ(b) holds if and only if a and b have equal epoch_number and
\* equal epoch_height.
C11_TrichotomyAndEquality ==
    heightOut.op \in {"LT", "EQ", "GT"} =>
        /\ Cardinality({k \in {"lt", "eq", "gt"} : OrderResults[k]}) = 1
        /\ OrderResults.eq <=>
              (a.EpochNumber = b.EpochNumber /\ a.EpochHeight = b.EpochHeight)

\* EQ was asked of two heights of one epoch whose epoch_heights differ by
\* exactly half the domain, where the int64 difference wraps to its minimum
C11_Witness ==
    /\ heightOut.op = "EQ"
    /\ a.EpochNumber = b.EpochNumber
    /\ a.EpochHeight = 0
    /\ b.EpochHeight = MaxInt64 + 1
    /\ ~heightOut.val.ab
    /\ LT(a, b)

====
